---- MODULE Spec2Model ----
(***************************************************************************)
(* N-Queens bitmask solver (n_queen_dp.py) and the solution navigation of  *)
(* the interactive explorer (app.py).                                      *)
(*                                                                         *)
(* solve_n_queens is modelled twice: step by step, with an explicit stack  *)
(* of dp frames and a heap of Python list objects (so that aliasing and    *)
(* interleaving of invocations are visible), and as the recursive          *)
(* operator SolveNQueens, which the explorer's handlers call.              *)
(***************************************************************************)
EXTENDS Integers, Sequences, FiniteSets, TLC

\* ---- bounds -------------------------------------------------------------
MaxN == 8          \* largest board size given to a single invocation
NegN == 2          \* invalid sizes -NegN..-1 are tried as well
ConcMaxN == 3      \* largest board size of interleaved invocations
NumCalls == 2      \* number of invocations
PermMaxN == 6      \* largest n compared against the n! permutations

\* ---- program constants ----------------------------------------------------
SliderMin == 5
SliderMax == 8
InitialSolutionIdx == 1

VARIABLES
    n,             \* n[c]: argument of invocation c
    pc,            \* pc[c]: "unused", "start", "run", "done", "raised"
    all_columns,   \* all_columns[c]: local of invocation c
    stack,         \* stack[c]: the live dp frames of invocation c, top last
    heap,          \* Python list objects: object id -> list value
    solutions,     \* solutions[c]: list of object ids, the local `solutions`
    result,        \* result[c]: value returned by invocation c
    board_size,    \* explorer: value of the board-size slider
    solution_idx,  \* explorer: value of the "Solution #" component
    cache,         \* explorer: module-level _cache, n -> solutions
    last_nav       \* explorer: what the last navigate call read and did

solver_vars == <<n, pc, all_columns, stack, heap, solutions, result>>
ui_vars == <<board_size, solution_idx, cache, last_nav>>
vars == <<n, pc, all_columns, stack, heap, solutions, result,
          board_size, solution_idx, cache, last_nav>>

Calls == 1..NumCalls

\* ---- Python integers --------------------------------------------------------
\* Python ints are unbounded and behave as infinite two's complement under
\* the bitwise operators; \div and % of TLA+ floor as Python's // and % do.

Invert(x) == -x - 1

RECURSIVE BitAnd(_, _)
BitAnd(x, y) ==
    IF x = 0 \/ y = 0 THEN 0
    ELSE IF x = -1 THEN y
    ELSE IF y = -1 THEN x
    ELSE (x % 2) * (y % 2) + 2 * BitAnd(x \div 2, y \div 2)

RECURSIVE BitOr(_, _)
BitOr(x, y) ==
    IF x = 0 THEN y
    ELSE IF y = 0 THEN x
    ELSE IF x = -1 \/ y = -1 THEN -1
    ELSE (IF x % 2 = 1 \/ y % 2 = 1 THEN 1 ELSE 0)
         + 2 * BitOr(x \div 2, y \div 2)

RECURSIVE BitXor(_, _)
BitXor(x, y) ==
    IF x = 0 THEN y
    ELSE IF y = 0 THEN x
    ELSE IF x = -1 THEN Invert(y)
    ELSE IF y = -1 THEN Invert(x)
    ELSE (((x % 2) + (y % 2)) % 2) + 2 * BitXor(x \div 2, y \div 2)

RECURSIVE BitLength(_)
BitLength(x) ==
    IF x = 0 THEN 0
    ELSE IF x < 0 THEN BitLength(-x)
    ELSE 1 + BitLength(x \div 2)

ShiftLeft(x, k) == x * 2^k

ShiftRightAsLeft(x, k) == x * 2^k

ShiftRight(x, k) == x \div 2^k

Bit(x, i) == (x \div 2^i) % 2 = 1

\* ---- the pieces of solve_n_queens -------------------------------------------

\* 1 << n raises ValueError("negative shift count") for negative n.
AllColumnsNoRaise(nn) ==
    [raised |-> FALSE, val |-> IF nn < 0 THEN 0 ELSE ShiftLeft(1, nn) - 1]

AllColumnsNarrow(nn) ==
    IF nn < 0 THEN [raised |-> TRUE, val |-> 0]
    ELSE [raised |-> FALSE,
          val |-> IF nn = 0 THEN 0 ELSE ShiftLeft(1, nn - 1) - 1]

AllColumns(nn) ==
    IF nn < 0 THEN [raised |-> TRUE, val |-> 0]
    ELSE [raised |-> FALSE, val |-> ShiftLeft(1, nn) - 1]

AvailableNoRightDiag(ac, cols, left_diag, right_diag) ==
    BitAnd(ac, Invert(BitOr(cols, left_diag)))

Available(ac, cols, left_diag, right_diag) ==
    BitAnd(ac, Invert(BitOr(BitOr(cols, left_diag), right_diag)))

HighestSetBit(a) == IF a <= 0 THEN 0 ELSE 2^(BitLength(a) - 1)

LowestSetBit(a) == BitAnd(a, -a)

ColumnOf(bit) == BitLength(bit) - 1

NextCols(cols, bit) == BitOr(cols, bit)

NextLeftDiagNoShift(left_diag, bit) == BitOr(left_diag, bit)

NextLeftDiag(left_diag, bit) == ShiftLeft(BitOr(left_diag, bit), 1)

NextRightDiag(right_diag, bit) == ShiftRight(BitOr(right_diag, bit), 1)

\* ---- Python list objects ----------------------------------------------------
\* An object id is <<c, k>>: the k-th list created by invocation c.
\* <<c, 0>> is the list bound to `placement` by the call dp(0, 0, 0, 0, []).

PlacementOf(c) == <<c, 0>>

EmptyHeap == [o \in {} |-> <<>>]

NoCopy(h, src) == [id |-> src, heap |-> h]

\* placement[:] creates a new list object with the same elements
SliceCopy(h, src) ==
    LET id == <<src[1], Cardinality({o \in DOMAIN h : o[1] = src[1]})>>
    IN  [id |-> id, heap |-> (id :> h[src]) @@ h]

SharedSolutions(c) == 1

\* `solutions` is a local of solve_n_queens: each invocation has its own
SolutionsOf(c) == c

\* the values of a list of list objects
Values(h, ids) == [i \in 1..Len(ids) |-> h[ids[i]]]

\* ---- dp frames ----------------------------------------------------------------
\* at is the position in dp: "entry" (line 40), "loop" (line 47),
\* "ret" (line 61, waiting for the recursive call to return).
\* entered is the value `placement` had when the call was entered.
Frame(row, cols, left_diag, right_diag, entered) ==
    [row |-> row, cols |-> cols, left_diag |-> left_diag,
     right_diag |-> right_diag, available |-> 0, at |-> "entry",
     entered |-> entered]

Top(c) == stack[c][Len(stack[c])]

Pop(s) == SubSeq(s, 1, Len(s) - 1)

SetTop(s, f) == [s EXCEPT ![Len(s)] = f]

\* ---- actions of one invocation ----------------------------------------------

\* lines 35-36 and the call at line 63
Invoke(c) ==
    /\ pc[c] = "start"
    /\ LET ac == AllColumns(n[c]) IN
       IF ac.raised
       THEN /\ pc' = [pc EXCEPT ![c] = "raised"]
            /\ UNCHANGED <<all_columns, stack, heap, solutions>>
       ELSE /\ pc' = [pc EXCEPT ![c] = "run"]
            /\ all_columns' = [all_columns EXCEPT ![c] = ac.val]
            /\ solutions' = [solutions EXCEPT ![SolutionsOf(c)] = <<>>]
            /\ heap' = (PlacementOf(c) :> <<>>) @@ heap
            /\ stack' = [stack EXCEPT ![c] = <<Frame(0, 0, 0, 0, <<>>)>>]
    /\ UNCHANGED <<n, result, ui_vars>>

\* lines 40-45
DpEntry(c) ==
    /\ pc[c] = "run"
    /\ stack[c] # <<>>
    /\ Top(c).at = "entry"
    /\ LET f == Top(c) IN
       IF f.row = n[c]
       THEN LET cp == SliceCopy(heap, PlacementOf(c)) IN
            /\ heap' = cp.heap
            /\ solutions' = [solutions EXCEPT
                               ![SolutionsOf(c)] = Append(@, cp.id)]
            /\ stack' = [stack EXCEPT ![c] = Pop(@)]
       ELSE /\ stack' = [stack EXCEPT ![c] = SetTop(@,
                  [f EXCEPT !.available = Available(all_columns[c], f.cols,
                                              f.left_diag, f.right_diag),
                            !.at = "loop"])]
            /\ UNCHANGED <<heap, solutions>>
    /\ UNCHANGED <<n, pc, all_columns, result, ui_vars>>

\* lines 47-60: one more candidate column, placed and descended into
DpPlace(c) ==
    /\ pc[c] = "run"
    /\ stack[c] # <<>>
    /\ Top(c).at = "loop"
    /\ Top(c).available # 0
    /\ LET f == Top(c)
           bit == LowestSetBit(f.available)
           col == ColumnOf(bit)
           placed == Append(heap[PlacementOf(c)], col)
       IN  /\ heap' = [heap EXCEPT ![PlacementOf(c)] = placed]
           /\ stack' = [stack EXCEPT ![c] = Append(
                  SetTop(@, [f EXCEPT !.available = BitXor(f.available, bit),
                                      !.at = "ret"]),
                  Frame(f.row + 1, NextCols(f.cols, bit),
                        NextLeftDiag(f.left_diag, bit),
                        NextRightDiag(f.right_diag, bit), placed))]
    /\ UNCHANGED <<n, pc, all_columns, solutions, result, ui_vars>>

\* line 47 with available = 0: the while loop ends and dp returns
DpExhausted(c) ==
    /\ pc[c] = "run"
    /\ stack[c] # <<>>
    /\ Top(c).at = "loop"
    /\ Top(c).available = 0
    /\ stack' = [stack EXCEPT ![c] = Pop(@)]
    /\ UNCHANGED <<n, pc, all_columns, heap, solutions, result, ui_vars>>

\* line 61: placement.pop() after the recursive call returned
DpBacktrack(c) ==
    /\ pc[c] = "run"
    /\ stack[c] # <<>>
    /\ Top(c).at = "ret"
    /\ heap' = [heap EXCEPT ![PlacementOf(c)] = Pop(@)]
    /\ stack' = [stack EXCEPT ![c] = SetTop(@, [Top(c) EXCEPT !.at = "loop"])]
    /\ UNCHANGED <<n, pc, all_columns, solutions, result, ui_vars>>

\* line 64
Return(c) ==
    /\ pc[c] = "run"
    /\ stack[c] = <<>>
    /\ result' = [result EXCEPT ![c] = Values(heap, solutions[SolutionsOf(c)])]
    /\ pc' = [pc EXCEPT ![c] = "done"]
    /\ UNCHANGED <<n, all_columns, stack, heap, solutions, ui_vars>>

\* ---- solve_n_queens as a function -----------------------------------------
\* Dp is the list of placements one call of dp appends to `solutions`;
\* DpWhile is the same for the rest of its while loop.
RECURSIVE Dp(_, _, _, _, _, _, _)
RECURSIVE DpWhile(_, _, _, _, _, _, _, _)
Dp(nn, ac, row, cols, left_diag, right_diag, placement) ==
    IF row = nn THEN <<placement>>
    ELSE DpWhile(nn, ac, row, cols, left_diag, right_diag, placement,
                 Available(ac, cols, left_diag, right_diag))

DpWhile(nn, ac, row, cols, left_diag, right_diag, placement, available) ==
    IF available = 0 THEN <<>>
    ELSE LET bit == LowestSetBit(available)
             col == ColumnOf(bit)
         IN  Dp(nn, ac, row + 1, NextCols(cols, bit),
                NextLeftDiag(left_diag, bit), NextRightDiag(right_diag, bit),
                Append(placement, col))
             \o DpWhile(nn, ac, row, cols, left_diag, right_diag, placement,
                        BitXor(available, bit))

SolveNQueens(nn) ==
    LET ac == AllColumns(nn) IN
    IF ac.raised THEN [raised |-> TRUE, val |-> <<>>]
    ELSE [raised |-> FALSE, val |-> Dp(nn, ac.val, 0, 0, 0, 0, <<>>)]

\* ---- the explorer (app.py) ---------------------------------------------------

EmptyCache == [k \in {} |-> <<>>]

\* what solve_n_queens returns for the sizes the slider offers
SolverOutput == [k \in SliderMin..SliderMax |-> SolveNQueens(k).val]

\* _get_solutions: the cache after the call
GetSolutions(ch, nn) ==
    IF nn \in DOMAIN ch THEN ch ELSE (nn :> SolverOutput[nn]) @@ ch

\* list[i] is defined for -len <= i < len and raises IndexError otherwise
IndexValid(len, i) == -len <= i /\ i < len

Max(a, b) == IF a >= b THEN a ELSE b

Min(a, b) == IF a <= b THEN a ELSE b

Directions == {"prev", "next", "first", "last"}

\* lines 195-203 of navigate
NavIndex(idx, direction, total) ==
    IF direction = "prev" THEN Max(1, idx - 1)
    ELSE IF direction = "next" THEN Min(total, idx + 1)
    ELSE IF direction = "first" THEN 1
    ELSE IF direction = "last" THEN total
    ELSE idx

NoNav == [called |-> FALSE, read |-> 0, used |-> 0, total |-> 0,
          raised |-> FALSE]

\* the user moves the board-size slider; no handler is attached to it
MoveBoardSize(v) ==
    /\ v # board_size
    /\ board_size' = v
    /\ UNCHANGED <<solution_idx, cache, last_nav, solver_vars>>

\* solve_btn.click: _on_solve, solve_and_show
OnSolve ==
    /\ cache' = GetSolutions(cache, board_size)
    /\ solution_idx' = 1
    /\ UNCHANGED <<board_size, last_nav, solver_vars>>

\* a navigation button: _nav, navigate.  An exception in the handler leaves
\* the output components as they were.
Nav(direction) ==
    LET ch == GetSolutions(cache, board_size)
        sols == ch[board_size]
        idx == NavIndex(solution_idx, direction, Len(sols))
    IN  /\ cache' = ch
        /\ IF sols = <<>>
           THEN /\ solution_idx' = 1
                /\ last_nav' = [called |-> TRUE, read |-> solution_idx,
                                used |-> 0, total |-> 0, raised |-> FALSE]
           ELSE IF IndexValid(Len(sols), idx - 1)
           THEN /\ solution_idx' = idx
                /\ last_nav' = [called |-> TRUE, read |-> solution_idx,
                                used |-> idx, total |-> Len(sols),
                                raised |-> FALSE]
           ELSE /\ solution_idx' = solution_idx
                /\ last_nav' = [called |-> TRUE, read |-> solution_idx,
                                used |-> idx, total |-> Len(sols),
                                raised |-> TRUE]
        /\ UNCHANGED <<board_size, solver_vars>>

\* ---- specifications -----------------------------------------------------------

InitUI ==
    /\ board_size = SliderMax
    /\ solution_idx = InitialSolutionIdx
    /\ cache = EmptyCache
    /\ last_nav = NoNav

InitSolver(active, sizes) ==
    /\ n \in [Calls -> sizes \cup {0}]
    /\ \A c \in Calls \ active : n[c] = 0
    /\ pc = [c \in Calls |-> IF c \in active THEN "start" ELSE "unused"]
    /\ all_columns = [c \in Calls |-> 0]
    /\ stack = [c \in Calls |-> <<>>]
    /\ heap = EmptyHeap
    /\ solutions = [c \in Calls |-> <<>>]
    /\ result = [c \in Calls |-> <<>>]

\* one invocation, any size
Init == InitSolver({1}, (-NegN)..MaxN) /\ InitUI

\* all invocations at once, small sizes.  Invocations are interchangeable,
\* so they are numbered by ascending size.
InitConc ==
    /\ InitSolver(Calls, (-1)..ConcMaxN)
    /\ \A c, d \in Calls : c < d => n[c] <= n[d]
    /\ InitUI

\* the explorer alone
InitExplorer == InitSolver({}, {0}) /\ InitUI

SolverNext ==
    \E c \in Calls :
        \/ Invoke(c)
        \/ DpEntry(c)
        \/ DpPlace(c)
        \/ DpExhausted(c)
        \/ DpBacktrack(c)
        \/ Return(c)

ExplorerNext ==
    \/ \E v \in SliderMin..SliderMax : MoveBoardSize(v)
    \/ OnSolve
    \/ \E d \in Directions : Nav(d)

Next == SolverNext

Spec == Init /\ [][Next]_vars

SpecConc == InitConc /\ [][SolverNext]_vars

SpecExplorer == InitExplorer /\ [][ExplorerNext]_vars

\* ---- properties ------------------------------------------------------------------

Abs(x) == IF x < 0 THEN -x ELSE x

\* placement p (row k at p[k + 1]) is a list of nn columns, no two of which
\* share a column or a diagonal
NonAttacking(nn, p) ==
    /\ Len(p) = nn
    /\ \A i \in 1..Len(p) : p[i] \in 0..(nn - 1)
    /\ \A i, j \in 1..Len(p) :
          i # j => /\ p[i] # p[j]
                   /\ Abs(i - j) # Abs(p[i] - p[j])

\* the permutations of 0..nn-1 in which no two rows share a diagonal
ValidPermutations(nn) ==
    {q \in [1..nn -> 0..(nn - 1)] :
        /\ \A i, j \in 1..nn : i # j => q[i] # q[j]
        /\ \A i, j \in 1..nn : i # j => Abs(i - j) # Abs(q[i] - q[j])}

Elements(seq) == {seq[i] : i \in 1..Len(seq)}

\* a comes strictly before b in lexicographic order
LexLess(a, b) ==
    \E k \in 1..Min(Len(a), Len(b)) :
        /\ a[k] < b[k]
        /\ \A j \in 1..(k - 1) : a[j] = b[j]

IsPrefix(a, b) == Len(a) <= Len(b) /\ a = SubSeq(b, 1, Len(a))

\* solution counts listed for n = 0..8
KnownCounts == <<1, 1, 0, 0, 2, 10, 4, 40, 92>>

FirstOfFour == <<1, 3, 0, 2>>

\* what an invocation returns when it runs alone
Reference == [k \in 0..ConcMaxN |-> SolveNQueens(k).val]

\* C1: every placement returned for n >= 0 has length n, columns in [0, n),
\* and no two of its rows share a column or a diagonal.
C1_NoFalsePositives ==
    \A c \in Calls :
        pc[c] = "done" =>
            \A i \in 1..Len(result[c]) : NonAttacking(n[c], result[c][i])

C1_Witness ==
    /\ pc[1] = "done"
    /\ n[1] = SliderMax
    /\ Len(result[1]) > 1

\* C2: for n up to PermMaxN the set of returned placements is exactly the set
\* of permutations of 0..n-1 in which no two rows share a diagonal.
C2_NoFalseNegatives ==
    \A c \in Calls :
        (pc[c] = "done" /\ n[c] \in 0..PermMaxN) =>
            Elements(result[c]) = ValidPermutations(n[c])

C2_Witness ==
    /\ pc[1] = "done"
    /\ n[1] = SliderMin
    /\ Cardinality(ValidPermutations(n[1])) > 1
    /\ Cardinality(Elements(result[1])) > 1

\* C3: the number of placements returned for n = 0..8 is
\* 1, 1, 0, 0, 2, 10, 4, 40, 92; n = 0 returns the empty placement alone.
C3_SolutionCounts ==
    \A c \in Calls :
        (pc[c] = "done" /\ n[c] \in 0..(Len(KnownCounts) - 1)) =>
            /\ Len(result[c]) = KnownCounts[n[c] + 1]
            /\ n[c] = 0 => result[c] = << <<>> >>

C3_Witness ==
    /\ pc[1] = "done"
    /\ n[1] = 0
    /\ Len(result[1]) = 1

\* C4: the returned sequence is strictly ascending in lexicographic order,
\* so no placement occurs twice, and for n = 4 it starts with [1,3,0,2].
C4_LexicographicOrder ==
    \A c \in Calls :
        pc[c] = "done" =>
            /\ \A i \in 1..(Len(result[c]) - 1) :
                  LexLess(result[c][i], result[c][i + 1])
            /\ \A i, j \in 1..Len(result[c]) :
                  i # j => result[c][i] # result[c][j]
            /\ n[c] = Len(FirstOfFour) =>
                  (result[c] # <<>> /\ result[c][1] = FirstOfFour)

C4_Witness ==
    /\ pc[1] = "done"
    /\ n[1] = Len(FirstOfFour)
    /\ Len(result[1]) = 2

\* C5: a negative n makes the invocation raise before dp is entered: no
\* frame, no list object and no solution exists, and it never returns.
C5_NegativeRaises ==
    \A c \in Calls :
        (pc[c] # "unused" /\ n[c] < 0) =>
            /\ pc[c] \in {"start", "raised"}
            /\ stack[c] = <<>>
            /\ solutions[c] = <<>>
            /\ \A o \in DOMAIN heap : o[1] # c

C5_Witness ==
    /\ pc[1] = "raised"
    /\ n[1] < 0

\* C6: under any interleaving, what an invocation has collected is a prefix
\* of what it returns when run alone, it returns exactly that, and two
\* invocations with the same n return the same sequence.
C6_NoSharedState ==
    /\ \A c \in Calls :
          (pc[c] = "run" /\ n[c] >= 0) =>
              IsPrefix(Values(heap, solutions[c]), Reference[n[c]])
    /\ \A c \in Calls :
          (pc[c] = "done" /\ n[c] >= 0) => result[c] = Reference[n[c]]
    /\ \A c, d \in Calls :
          (pc[c] = "done" /\ pc[d] = "done" /\ n[c] = n[d]) =>
              result[c] = result[d]

C6_Witness ==
    /\ pc[1] = "run" /\ pc[2] = "run"
    /\ n[1] >= 0 /\ n[1] < n[2]
    /\ Len(solutions[1]) = 1 /\ Len(solutions[2]) = 1
    /\ heap[solutions[1][1]] # heap[solutions[2][1]]

\* the masks of frame f of an invocation with size nn describe placement p
MasksEncode(nn, f, p) ==
    \A i \in 0..(nn - 1) :
        /\ Bit(f.cols, i) <=> \E k \in 0..(f.row - 1) : p[k + 1] = i
        /\ Bit(f.left_diag, i) <=>
              \E k \in 0..(f.row - 1) : p[k + 1] + (f.row - k) = i
        /\ Bit(f.right_diag, i) <=>
              \E k \in 0..(f.row - 1) : p[k + 1] - (f.row - k) = i

\* bit i of available is set iff (row, i) attacks no queen of p
AvailableIsSafe(nn, ac, f, p) ==
    \A i \in 0..(nn - 1) :
        Bit(Available(ac, f.cols, f.left_diag, f.right_diag), i) <=>
            \A k \in 0..(f.row - 1) :
                /\ p[k + 1] # i
                /\ Abs(p[k + 1] - i) # f.row - k

\* C7: at every entry to dp at row r the three masks encode, for the columns
\* in [0, n), exactly the columns and diagonals attacked by the queens of
\* rows 0..r-1, and available has exactly the safe columns of row r.
C7_MasksExact ==
    \A c \in Calls :
        (pc[c] = "run" /\ stack[c] # <<>> /\ Top(c).at = "entry") =>
            /\ MasksEncode(n[c], Top(c), heap[PlacementOf(c)])
            /\ AvailableIsSafe(n[c], all_columns[c], Top(c),
                               heap[PlacementOf(c)])

C7_Witness ==
    /\ pc[1] = "run"
    /\ stack[1] # <<>>
    /\ Top(1).at = "entry"
    /\ Top(1).row >= 3
    /\ Top(1).row < n[1]
    /\ Top(1).left_diag # 0
    /\ Top(1).right_diag # 0
    /\ Available(all_columns[1], Top(1).cols, Top(1).left_diag,
                 Top(1).right_diag) # 0

\* C8 as stated: at every entry to dp none of cols, left_diag, right_diag
\* has a bit at a position >= n.
C8_AllMasksWidthN ==
    \A c \in Calls :
        (pc[c] = "run" /\ stack[c] # <<>> /\ Top(c).at = "entry") =>
            /\ Top(c).cols < 2^n[c]
            /\ Top(c).left_diag < 2^n[c]
            /\ Top(c).right_diag < 2^n[c]

\* C8 amended: at every entry to dp at row r, cols and right_diag have no bit
\* at a position >= n; left_diag has none at a position >= n + r; and
\* available, masked with all_columns, has none at a position >= n.
C8_MaskWidths ==
    \A c \in Calls :
        (pc[c] = "run" /\ stack[c] # <<>> /\ Top(c).at = "entry") =>
            /\ Top(c).cols >= 0 /\ Top(c).cols < 2^n[c]
            /\ Top(c).right_diag >= 0 /\ Top(c).right_diag < 2^n[c]
            /\ Top(c).left_diag >= 0
            /\ Top(c).left_diag < 2^(n[c] + Top(c).row)
            /\ Available(all_columns[c], Top(c).cols, Top(c).left_diag,
                         Top(c).right_diag) \in 0..(2^n[c] - 1)

C8_Witness ==
    /\ pc[1] = "run"
    /\ stack[1] # <<>>
    /\ Top(1).at = "entry"
    /\ Top(1).left_diag >= 2^n[1]
    /\ Top(1).right_diag # 0

\* at entry to dp at row r the placement list has length r
PlacementLengthIsRow ==
    \A c \in Calls :
        (pc[c] = "run" /\ stack[c] # <<>> /\ Top(c).at = "entry") =>
            Len(heap[PlacementOf(c)]) = Top(c).row

\* a call of dp that returns leaves the placement list as it was entered
ReturnRestoresPlacement ==
    \A c \in Calls :
        (pc[c] = "run" /\ Len(stack'[c]) < Len(stack[c])) =>
            heap'[PlacementOf(c)] = Top(c).entered

\* a stored placement is an object of its own and keeps its value
StoredCopiesFrozen ==
    \A c \in Calls :
        \A i \in 1..Len(solutions[c]) :
            /\ solutions[c][i] # PlacementOf(c)
            /\ i <= Len(solutions'[c])
            /\ solutions'[c][i] = solutions[c][i]
            /\ heap'[solutions[c][i]] = heap[solutions[c][i]]

\* C9: the placement list has length r at entry to dp at row r, is restored
\* when a call of dp returns, and a stored placement is a copy that no later
\* step changes.
C9_BacktrackingFrame ==
    [][/\ PlacementLengthIsRow
       /\ PlacementLengthIsRow'
       /\ ReturnRestoresPlacement
       /\ StoredCopiesFrozen]_vars

C9_Witness ==
    /\ pc[1] = "run"
    /\ Len(solutions[1]) >= 1
    /\ Len(stack[1]) > 1
    /\ Top(1).at = "ret"
    /\ heap[PlacementOf(1)] # heap[solutions[1][1]]

\* C10: every navigate call reads an index between 1 and the number of
\* solutions of the selected board size, and its list access is valid.
C10_NavIndexInRange ==
    last_nav.called =>
        /\ 1 <= last_nav.read
        /\ last_nav.read <= last_nav.total
        /\ ~last_nav.raised

====
